---- MODULE Spec2Model ----
(***************************************************************************)
(* State-machine model of the similarity engine                            *)
(* (src/src/similarity_engine.py) as driven by the service layer           *)
(* (src/app.py).                                                           *)
(*                                                                         *)
(* Scheduling.  Every handler is an asyncio coroutine on one event loop    *)
(* (uvicorn, workers=1).  The only awaits inside the engine are on         *)
(* _download_image, a coroutine that itself awaits nothing (it calls the   *)
(* blocking requests.get), so no await of the engine suspends: a sync pass *)
(* holds the loop from its first entry to its return, and a search runs    *)
(* from its first line to its return.  Each is one action.                 *)
(*                                                                         *)
(* Environment.  The catalog, the network, the pretrained encoder          *)
(* (open_clip) and the flat index (faiss) are outside the repository.      *)
(* Their answers are drawn from small sets: a catalog entry is drawn when  *)
(* the loop of sync_products reaches it (the list is read once, front to   *)
(* back, and never written), a fetch fails or yields bytes, a model load   *)
(* succeeds or raises, the encoder raises or yields a unit vector.         *)
(***************************************************************************)
EXTENDS Integers, Sequences, FiniteSets, TLC

VARIABLES
    model,             \* self.model: "None" or "loaded"
    index,             \* self.index: NoIndex (None) or a flat inner-product index
    product_metadata,  \* self.product_metadata: product id -> metadata snapshot
    faiss_to_product,  \* self.faiss_to_product: slot -> product id
    cache,             \* files of self.cache_dir: url -> raw bytes
    cache_dir,         \* the directory self.cache_dir exists
    loadAttempted,     \* _load_clip_model has got past its guard at least once
    pc,                \* "idle": the loop is free; "done": a handler is returning
    ret,               \* what the handler that just ran hands to its caller
    sync_tasks,        \* background tasks perform_sync: state and locals of the pass
    current            \* the background task that holds the event loop, 0: none

vars == <<model, index, product_metadata, faiss_to_product, cache, cache_dir,
          loadAttempted, pc, ret, sync_tasks, current>>

----------------------------------------------------------------------------
(* Bounds of the model *)

\* longest catalog handed to one sync pass
MaxEntries == 2
\* largest top_k a search asks for
MaxTopK == 2
\* background sync tasks that can be pending or running at once
MaxTasks == 2
\* most vectors in an index that searches are run against on their own
MaxIndexed == 3

----------------------------------------------------------------------------
(* Values *)

None == "None"

ProductIds == {"p1", "p2", "p3"}
Urls == {"u1", "u2"}
\* raw image bytes a server can answer with; "bad" does not decode
Bytes == {"jpg", "bad"}
\* unit vectors an encoder can return (the dimension is the encoder's)
Vectors == {<<1, 0>>, <<0, 1>>, <<1>>}
\* _extract_features answers None when anything in it raised
NoFeatures == <<>>
\* thresholds a search can ask for (scores are inner products of unit vectors)
MinSims == {0, 1}
TopKs == 1..MaxTopK

\* FirestoreProduct: the identifier and the image reference.  The display
\* fields (nombre, marca, modelo, categoria, precio, stock) are copied into
\* the metadata snapshot exactly as imagenUrl is and are read nowhere else.
Entries == [id : ProductIds, imagenUrl : Urls \cup {None}]

NoIndex == [built |-> FALSE, d |-> 0, xb |-> <<>>]

Range(s) == {s[j] : j \in DOMAIN s}

RECURSIVE Dot(_, _)
Dot(a, b) == IF a = <<>> \/ b = <<>> THEN 0
             ELSE Head(a) * Head(b) + Dot(Tail(a), Tail(b))

Min(a, b) == IF a < b THEN a ELSE b

\* dict assignment d[k] = v
Put(d, k, v) == [x \in DOMAIN d \cup {k} |-> IF x = k THEN v ELSE d[x]]

----------------------------------------------------------------------------
(* Image cache and fetcher *)

\* Image.open(...).convert("RGB"): raises on bytes that are no image
Decode(b) == IF b = "bad" THEN None ELSE b

\* (variant: a cached reference is fetched again and the file rewritten)
DownloadImageRevalidate(url, dir, files, net) ==
    IF net = "fail" \/ ~dir
    THEN [url |-> url, image |-> None, cache |-> files, net |-> TRUE, called |-> TRUE]
    ELSE [url |-> url, image |-> Decode(net), cache |-> Put(files, url, net),
          net |-> TRUE, called |-> TRUE]

\* _download_image(url) with the cache directory (dir: it exists; files: its
\* files) and the network's answer net ("fail": requests.get or
\* raise_for_status raised).  Any exception is caught and None returned; the
\* bytes are written to the cache before they are decoded, and open() of the
\* cache file raises when the directory is not there.
DownloadImage(url, dir, files, net) ==
    IF url \in DOMAIN files
    THEN [url |-> url, image |-> Decode(files[url]), cache |-> files, net |-> FALSE,
          called |-> TRUE]
    ELSE IF net = "fail" \/ ~dir
         THEN [url |-> url, image |-> None, cache |-> files, net |-> TRUE,
               called |-> TRUE]
         ELSE [url |-> url, image |-> Decode(net), cache |-> Put(files, url, net),
               net |-> TRUE, called |-> TRUE]

----------------------------------------------------------------------------
(* Embedding extractor *)

\* _load_clip_model() with the outcome of acquiring the encoder:
\*   "ok"         create_model_and_transforms, eval and cuda all return
\*   "raise"      create_model_and_transforms raises: self.model stays None
\*   "raise_set"  eval() or cuda() raises after self.model was assigned
\* The exception is logged and re-raised.
LoadClipModel(mdl, out) ==
    IF mdl # None
    THEN [model |-> mdl, raised |-> FALSE, started |-> FALSE]
    ELSE [model |-> IF out = "raise" THEN None ELSE "loaded",
          raised |-> out # "ok",
          started |-> TRUE]

\* _extract_features(image): loads the model when self.model is None, then
\* encodes; vec is the encoder's answer (NoFeatures: it raised).  Every
\* exception, the load's included, is caught and None returned.
ExtractFeatures(mdl, out, vec) ==
    LET ld == IF mdl = None THEN LoadClipModel(mdl, out)
              ELSE [model |-> mdl, raised |-> FALSE, started |-> FALSE]
    IN  [features |-> IF ld.raised THEN NoFeatures ELSE vec,
         model |-> ld.model,
         started |-> ld.started,
         loadFailed |-> ld.raised]

LoadOutcomes == {"ok", "raise", "raise_set"}
NetAnswers == Bytes \cup {"fail"}

----------------------------------------------------------------------------
(* Vector index (faiss.IndexFlatIP) *)

Slots(idx) == 0 .. (Len(idx.xb) - 1)
Score(idx, q, slot) == Dot(q, idx.xb[slot + 1])

\* index.search(q, k): the k best slots by inner product, best first.  The
\* order among equal scores, and which of several equal scores make the cut,
\* is the library's: the engine does not sort.
FaissSearch(idx, q, k) ==
    {c \in [1..k -> Slots(idx)] :
        /\ \A a, b \in 1..k : a < b => c[a] # c[b]
        /\ \A a, b \in 1..k : a < b => Score(idx, q, c[a]) >= Score(idx, q, c[b])
        /\ \A s \in Slots(idx) : s \notin Range(c) =>
               \A a \in 1..k : Score(idx, q, c[a]) >= Score(idx, q, s)}

\* np.vstack(features_list) raises unless every row has the same length
SameDimension(fl) == \A a, b \in DOMAIN fl : Len(fl[a]) = Len(fl[b])

\* IndexFlatIP(dimension) followed by add(features_array)
BuildIndex(fl) == [built |-> TRUE, d |-> Len(fl[1]), xb |-> fl]

----------------------------------------------------------------------------
(* Query / search: the result loop of search_similar *)

\* `if similarity_score < min_similarity: continue`
BelowThreshold(similarity_score, min_similarity) == similarity_score < min_similarity

\* (variant: the break taken one result late)
CollectedLate(results, top_k) == Len(results) > top_k

\* `if len(results) >= top_k: break`
Collected(results, top_k) == Len(results) >= top_k

\* zip(similarities[0], indices[0]) for the slots the index returned
Hits(idx, q, c) == [a \in DOMAIN c |-> [similarity |-> Score(idx, q, c[a]), idx |-> c[a]]]

\* (variant: rank is the bare enumerate counter)
MakeResultRankFromZero(hit, pos, f2p, meta) ==
    LET product_id == f2p[hit.idx + 1]
    IN  [product_id |-> product_id,
         metadata |-> meta[product_id],
         similarity_score |-> hit.similarity,
         rank |-> pos - 1,
         slot |-> hit.idx]

\* ProductResult(...); rank is the enumerate counter plus one.  The slot is
\* kept beside the result to state the order of equal scores.
MakeResult(hit, pos, f2p, meta) ==
    LET product_id == f2p[hit.idx + 1]
    IN  [product_id |-> product_id,
         metadata |-> meta[product_id],
         similarity_score |-> hit.similarity,
         rank |-> pos,
         slot |-> hit.idx]

\* `for rank, (similarity, idx) in enumerate(zip(...))`, from position pos
RECURSIVE ConvertResults(_, _, _, _, _, _, _)
ConvertResults(hits, pos, results, top_k, min_similarity, f2p, meta) ==
    IF pos > Len(hits) THEN results
    ELSE IF BelowThreshold(hits[pos].similarity, min_similarity)
         THEN ConvertResults(hits, pos + 1, results, top_k, min_similarity, f2p, meta)
         ELSE LET rs == Append(results, MakeResult(hits[pos], pos, f2p, meta))
              IN  IF Collected(rs, top_k) THEN rs
                  ELSE ConvertResults(hits, pos + 1, rs, top_k, min_similarity, f2p, meta)

\* (variant: the readiness check missing)
NotReadyNever(idx) == FALSE

\* `if self.index is None: raise`
NotReady(idx) == idx = NoIndex

\* (variant: half of top_k requested instead of twice)
OversampleHalved(top_k, f2p) == Min(top_k \div 2, Len(f2p))

\* min(top_k * 2, len(self.faiss_to_product))
Oversample(top_k, f2p) == Min(top_k * 2, Len(f2p))

----------------------------------------------------------------------------
(* Outcomes of operations *)

EmptyMap == [x \in {} |-> None]

\* status, error, value and results are what the caller receives; the other
\* fields record what the operation did: entries read and embedded by a
\* sync pass, whether a search called _download_image, for which reference,
\* whether it went to the network, the image it got and the vector the
\* image was embedded to, model loads started
\* and whether one raised, and per entry of a pass what became of it
NoRet == [op |-> "none", status |-> "ok", error |-> None, value |-> <<>>,
          results |-> <<>>, top_k |-> 0, min_similarity |-> 0,
          entries |-> 0, embedded |-> 0, fetch |-> FALSE, net |-> FALSE,
          image_url |-> None, image |-> None, query |-> NoFeatures,
          loads |-> 0, loadFailed |-> FALSE, log |-> <<>>]

\* what search_similar hands to its caller: the results, or an exception
SearchRet(error, results, top_k, min_similarity, dl, ex) ==
    [NoRet EXCEPT !.op = "search",
                  !.status = IF error = None THEN "ok" ELSE "error",
                  !.error = error,
                  !.results = results,
                  !.top_k = top_k,
                  !.min_similarity = min_similarity,
                  !.fetch = dl.called,
                  !.net = dl.net,
                  !.image_url = dl.url,
                  !.image = dl.image,
                  !.query = ex.features,
                  !.loads = IF ex.started THEN 1 ELSE 0,
                  !.loadFailed = ex.loadFailed]

\* sync_products has no return value: `return` (no image processed) and
\* the end of the function both give None
SyncValue(entries, embedded) == <<>>

----------------------------------------------------------------------------
(* Catalog synchronizer: sync_products *)

\* metadata snapshot of an entry (the other fields are copied the same way)
Metadata(producto) == [imagen_url |-> producto.imagenUrl]

\* the locals and the fields the loop of sync_products reads and writes; log
\* keeps, per entry met, its identifier and the vector it was embedded to
LoopStart ==
    [i |-> 0, features_list |-> <<>>, valid_products |-> <<>>,
     product_metadata |-> product_metadata, cache |-> cache,
     cache_dir |-> cache_dir, model |-> model,
     loads |-> 0, loadFailed |-> FALSE, log |-> <<>>]

\* (variant: the metadata stored before the image is fetched and embedded)
IterationMetadataFirst(L, producto, net, out, vec) ==
    LET next == [L EXCEPT !.i = @ + 1]
    IN  IF producto.imagenUrl = None THEN next
        ELSE LET dl == DownloadImage(producto.imagenUrl, L.cache_dir, L.cache, net)
                 fetched == [next EXCEPT
                               !.cache = dl.cache,
                               !.product_metadata =
                                   Put(@, producto.id, Metadata(producto))]
             IN  IF dl.image = None THEN fetched
                 ELSE LET ex == ExtractFeatures(L.model, out, vec)
                          tried == [fetched EXCEPT
                                      !.model = ex.model,
                                      !.loads = @ + (IF ex.started THEN 1 ELSE 0),
                                      !.loadFailed = @ \/ ex.loadFailed]
                      IN  IF ex.features = NoFeatures THEN tried
                          ELSE [tried EXCEPT
                                  !.features_list = Append(@, ex.features),
                                  !.valid_products = Append(@, producto)]

\* (variant: the embedded entry put at the front of the lists)
IterationNewestFirst(L, producto, net, out, vec) ==
    LET next == [L EXCEPT !.i = @ + 1]
    IN  IF producto.imagenUrl = None THEN next
        ELSE LET dl == DownloadImage(producto.imagenUrl, L.cache_dir, L.cache, net)
                 fetched == [next EXCEPT !.cache = dl.cache]
             IN  IF dl.image = None THEN fetched
                 ELSE LET ex == ExtractFeatures(L.model, out, vec)
                          tried == [fetched EXCEPT
                                      !.model = ex.model,
                                      !.loads = @ + (IF ex.started THEN 1 ELSE 0),
                                      !.loadFailed = @ \/ ex.loadFailed]
                      IN  IF ex.features = NoFeatures THEN tried
                          ELSE [tried EXCEPT
                                  !.features_list = <<ex.features>> \o @,
                                  !.valid_products = <<producto>> \o @,
                                  !.product_metadata =
                                      Put(@, producto.id, Metadata(producto))]

\* one iteration of `for i, producto in enumerate(productos)`
Iteration(L, producto, net, out, vec) ==
    LET next == [L EXCEPT !.i = @ + 1]
    IN  IF producto.imagenUrl = None THEN next
        ELSE LET dl == DownloadImage(producto.imagenUrl, L.cache_dir, L.cache, net)
                 fetched == [next EXCEPT !.cache = dl.cache]
             IN  IF dl.image = None THEN fetched
                 ELSE LET ex == ExtractFeatures(L.model, out, vec)
                          tried == [fetched EXCEPT
                                      !.model = ex.model,
                                      !.loads = @ + (IF ex.started THEN 1 ELSE 0),
                                      !.loadFailed = @ \/ ex.loadFailed]
                      IN  IF ex.features = NoFeatures THEN tried
                          ELSE [tried EXCEPT
                                  !.features_list = Append(@, ex.features),
                                  !.valid_products = Append(@, producto),
                                  !.product_metadata =
                                      Put(@, producto.id, Metadata(producto))]

\* the answers the environment can give during one iteration
NetChoices(url, files) == IF url \in DOMAIN files THEN {"fail"} ELSE NetAnswers
OutChoices(mdl) == IF mdl = None THEN LoadOutcomes ELSE {"ok"}
VecChoices == Vectors \cup {NoFeatures}

\* the entries the loop can meet next: identifiers are unique in a catalog
NextEntries(L) ==
    IF L.i >= Min(MaxEntries, Cardinality(ProductIds)) THEN {}
    ELSE {producto \in Entries :
            \A s \in DOMAIN L.valid_products : L.valid_products[s].id # producto.id}

\* what became of entry producto: NoFeatures when it has no image reference,
\* its fetch gave no image or its embedding failed, else its vector.  The
\* identifier is kept for an embedded entry only: nothing of a skipped entry
\* is read after the skip.
Outcome(L, producto, net, out, vec) ==
    LET features ==
            IF producto.imagenUrl = None THEN NoFeatures
            ELSE IF DownloadImage(producto.imagenUrl, L.cache_dir, L.cache, net).image
                        = None
                 THEN NoFeatures
                 ELSE ExtractFeatures(L.model, out, vec).features
    IN  [id |-> IF features = NoFeatures THEN None ELSE producto.id,
         features |-> features]

\* the iteration, with the entry's outcome added to the log
Logged(L, producto, net, out, vec) ==
    [Iteration(L, producto, net, out, vec) EXCEPT
        !.log = Append(L.log, Outcome(L, producto, net, out, vec))]

\* every way the iteration over entry producto can go from loop state L
IterationsOf(L, producto) ==
    IF producto.imagenUrl = None
    THEN {Logged(L, producto, "fail", "ok", NoFeatures)}
    ELSE UNION {
           IF DownloadImage(producto.imagenUrl, L.cache_dir, L.cache, net).image = None
           THEN {Logged(L, producto, net, "ok", NoFeatures)}
           ELSE {Logged(L, producto, net, out, vec) :
                    out \in OutChoices(L.model), vec \in VecChoices}
           : net \in NetChoices(producto.imagenUrl, L.cache)}

\* every way one more iteration can go from loop state L
Iterations(L) == UNION {IterationsOf(L, producto) : producto \in NextEntries(L)}

\* the loop states at which the catalog can end, after at most k more entries
RECURSIVE LoopEnds(_, _)
LoopEnds(S, k) ==
    IF k = 0 \/ S = {} THEN S
    ELSE S \cup LoopEnds(UNION {Iterations(L) : L \in S}, k - 1)

\* what sync_products hands to its caller: None, or the exception of vstack
SyncRet(error, L) ==
    [NoRet EXCEPT !.op = "sync",
                  !.status = IF error = None THEN "ok" ELSE "error",
                  !.error = error,
                  !.value = IF error = None
                            THEN SyncValue(L.i, Len(L.features_list)) ELSE <<>>,
                  !.entries = L.i,
                  !.embedded = Len(L.features_list),
                  !.loads = L.loads,
                  !.loadFailed = L.loadFailed,
                  !.log = L.log]

----------------------------------------------------------------------------
(* Event loop *)

Tasks == 1..MaxTasks

\* a background task that is not there, with the locals of a pass at its start
NoTask == [st |-> "none", i |-> 0, features_list |-> <<>>, valid_products |-> <<>>]

\* (variant: the fetch awaits the network, as with an asynchronous client)
DownloadSuspendsOnNetwork == TRUE

\* whether `await self._download_image(url)` hands the event loop over:
\* _download_image awaits nothing (requests.get blocks the thread), so the
\* await runs it through to its return
DownloadSuspends == FALSE

----------------------------------------------------------------------------
(* State machine *)

Init ==
    /\ model = None
    /\ index = NoIndex
    /\ product_metadata = EmptyMap
    /\ faiss_to_product = <<>>
    /\ cache = EmptyMap
    /\ cache_dir = TRUE
    /\ loadAttempted = FALSE
    /\ pc = "idle"
    /\ ret = NoRet
    /\ sync_tasks = [t \in Tasks |-> NoTask]
    /\ current = 0

\* sync_products(productos), first line to return: lines 138-195
Sync ==
    /\ pc = "idle"
    /\ pc' = "done"
    /\ \E L \in LoopEnds({LoopStart}, MaxEntries) :
         /\ model' = L.model
         /\ cache' = L.cache
         /\ product_metadata' = L.product_metadata
         /\ loadAttempted' = (loadAttempted \/ L.loads > 0)
         /\ IF L.features_list = <<>>
            THEN /\ ret' = SyncRet(None, L)
                 /\ UNCHANGED <<index, faiss_to_product>>
            ELSE IF ~SameDimension(L.features_list)
                 THEN /\ ret' = SyncRet("dimension", L)
                      /\ UNCHANGED <<index, faiss_to_product>>
                 ELSE /\ index' = BuildIndex(L.features_list)
                      /\ faiss_to_product' =
                             [s \in DOMAIN L.valid_products |-> L.valid_products[s].id]
                      /\ ret' = SyncRet(None, L)
    /\ UNCHANGED <<cache_dir, sync_tasks, current>>

\* _download_image, _extract_features not called
NoFetch == [url |-> None, image |-> None, cache |-> cache, net |-> FALSE,
            called |-> FALSE]
NoLoad == [features |-> NoFeatures, model |-> model, started |-> FALSE,
           loadFailed |-> FALSE]

\* search_similar(image_url, top_k, min_similarity), first line to return:
\* lines 197-253
Search ==
    /\ pc = "idle"
    /\ pc' = "done"
    /\ \E image_url \in Urls, top_k \in TopKs, min_similarity \in MinSims :
         IF NotReady(index)
         THEN /\ ret' = SearchRet("not_ready", <<>>, top_k, min_similarity, NoFetch, NoLoad)
              /\ UNCHANGED <<model, cache, loadAttempted>>
         ELSE \E net \in NetChoices(image_url, cache) :
                LET dl == DownloadImage(image_url, cache_dir, cache, net)
                IN  /\ cache' = dl.cache
                    /\ IF dl.image = None
                       THEN /\ ret' = SearchRet("download", <<>>, top_k, min_similarity,
                                                dl, NoLoad)
                            /\ UNCHANGED <<model, loadAttempted>>
                       ELSE \E out \in OutChoices(model), vec \in VecChoices :
                              LET ex == ExtractFeatures(model, out, vec)
                              IN  /\ model' = ex.model
                                  /\ loadAttempted' = (loadAttempted \/ ex.started)
                                  /\ IF ex.features = NoFeatures
                                     THEN ret' = SearchRet("extract", <<>>, top_k,
                                                           min_similarity, dl, ex)
                                     ELSE IF Len(ex.features) # index.d
                                     THEN ret' = SearchRet("query_dimension", <<>>, top_k,
                                                           min_similarity, dl, ex)
                                     ELSE \E c \in FaissSearch(index, ex.features,
                                                     Oversample(top_k, faiss_to_product)) :
                                            ret' = SearchRet(None,
                                                     ConvertResults(
                                                         Hits(index, ex.features, c), 1,
                                                         <<>>, top_k, min_similarity,
                                                         faiss_to_product, product_metadata),
                                                     top_k, min_similarity, dl, ex)
    /\ UNCHANGED <<index, product_metadata, faiss_to_product, cache_dir, sync_tasks,
                   current>>

\* the handler returns and the loop takes the next request
Return ==
    /\ pc = "done"
    /\ pc' = "idle"
    /\ ret' = NoRet
    /\ UNCHANGED <<model, index, product_metadata, faiss_to_product, cache,
                   cache_dir, loadAttempted, sync_tasks, current>>

Next == Sync \/ Search \/ Return

Spec == Init /\ [][Next]_vars

----------------------------------------------------------------------------
(* Background sync on the event loop: POST /sync-products and perform_sync, *)
(* one entry of the catalog per step                                         *)

\* POST /sync-products: the handler adds perform_sync to the background
\* tasks of the request and answers; it does not look for a pass in progress
SyncRequest ==
    /\ current = 0
    /\ \E t \in Tasks :
         /\ sync_tasks[t].st = "none"
         /\ sync_tasks' = [sync_tasks EXCEPT ![t].st = "queued"]
    /\ UNCHANGED <<model, index, product_metadata, faiss_to_product, cache,
                   cache_dir, loadAttempted, pc, ret, current>>

\* perform_sync starts on the free loop: get_productos (a blocking request)
\* and the first lines of sync_products
PerformSyncBegin(t) ==
    /\ current = 0
    /\ sync_tasks[t].st = "queued"
    /\ sync_tasks' = [sync_tasks EXCEPT ![t].st = "running"]
    /\ current' = t
    /\ UNCHANGED <<model, index, product_metadata, faiss_to_product, cache,
                   cache_dir, loadAttempted, pc, ret>>

\* the loop state of task t: its locals beside the fields of the engine
LoopOf(t) ==
    [i |-> sync_tasks[t].i,
     features_list |-> sync_tasks[t].features_list,
     valid_products |-> sync_tasks[t].valid_products,
     product_metadata |-> product_metadata, cache |-> cache,
     cache_dir |-> cache_dir, model |-> model,
     loads |-> 0, loadFailed |-> FALSE, log |-> <<>>]

\* one iteration of the loop of sync_products in task t.  The task goes on
\* when it holds the loop, or when the loop is free and it was suspended; it
\* gives the loop up at `await self._download_image(...)` when that
\* coroutine suspends.
PerformSyncStep(t) ==
    /\ sync_tasks[t].st = "running"
    /\ current \in {0, t}
    /\ \E producto \in NextEntries(LoopOf(t)) :
         \E L \in IterationsOf(LoopOf(t), producto) :
            /\ sync_tasks' = [sync_tasks EXCEPT
                                ![t].i = L.i,
                                ![t].features_list = L.features_list,
                                ![t].valid_products = L.valid_products]
            /\ model' = L.model
            /\ cache' = L.cache
            /\ product_metadata' = L.product_metadata
            /\ loadAttempted' = (loadAttempted \/ L.loads > 0)
            /\ current' = IF producto.imagenUrl # None /\ DownloadSuspends
                          THEN 0 ELSE t
    /\ UNCHANGED <<index, faiss_to_product, cache_dir, pc, ret>>

\* the catalog is exhausted: lines 180-195, then perform_sync logs and ends
\* (it hands nothing to a caller, and catches what sync_products raises)
PerformSyncEnd(t) ==
    /\ sync_tasks[t].st = "running"
    /\ current \in {0, t}
    /\ LET L == LoopOf(t)
       IN  IF L.features_list = <<>> \/ ~SameDimension(L.features_list)
           THEN UNCHANGED <<index, faiss_to_product>>
           ELSE /\ index' = BuildIndex(L.features_list)
                /\ faiss_to_product' =
                       [s \in DOMAIN L.valid_products |-> L.valid_products[s].id]
    /\ sync_tasks' = [sync_tasks EXCEPT ![t] = NoTask]
    /\ current' = 0
    /\ UNCHANGED <<model, product_metadata, cache, cache_dir, loadAttempted, pc, ret>>

NextLoop ==
    \/ SyncRequest
    \/ \E t \in Tasks : PerformSyncBegin(t)
    \/ \E t \in Tasks : PerformSyncStep(t)
    \/ \E t \in Tasks : PerformSyncEnd(t)

SpecLoop == Init /\ [][NextLoop]_vars

----------------------------------------------------------------------------
(* Cache maintenance: clear_cache, and the directory lost from outside *)

\* clear_cache(): rmtree then mkdir inside one try; rmtree of a directory
\* that is not there raises FileNotFoundError, which is caught and logged, so
\* mkdir is not reached.  Nothing is raised to the caller.
ClearCache ==
    /\ pc = "idle"
    /\ pc' = "done"
    /\ IF cache_dir
       THEN cache' = EmptyMap /\ cache_dir' = TRUE
       ELSE UNCHANGED <<cache, cache_dir>>
    /\ ret' = [NoRet EXCEPT !.op = "clear"]
    /\ UNCHANGED <<model, index, product_metadata, faiss_to_product, loadAttempted,
                   sync_tasks, current>>

\* the cache directory is removed by something other than the engine (the
\* working directory is cleaned); __init__ made it, nothing else makes it
CacheDirRemoved ==
    /\ pc = "idle"
    /\ cache_dir
    /\ cache_dir' = FALSE
    /\ cache' = EmptyMap
    /\ UNCHANGED <<model, index, product_metadata, faiss_to_product, loadAttempted,
                   pc, ret, sync_tasks, current>>

NextCache == Sync \/ Search \/ Return \/ ClearCache \/ CacheDirRemoved

SpecCache == Init /\ [][NextCache]_vars

----------------------------------------------------------------------------
(* Searches against an index of up to MaxIndexed vectors *)

\* vectors of the index's dimension an image can be embedded to
PlaneVectors == {v \in Vectors : Len(v) = 2}

\* the identifiers of a catalog, in its order
CatalogIds == <<"p1", "p2", "p3">>

\* The engine after one sync pass over a catalog of n entries, each with an
\* image reference, all fetched and embedded (emb: what the encoder makes of
\* the image behind each reference).
InitSearch ==
    \E n \in 1..Min(MaxIndexed, Len(CatalogIds)) :
      \E urls \in [1..n -> Urls], emb \in [Urls -> PlaneVectors] :
        /\ model = "loaded"
        /\ loadAttempted = TRUE
        /\ index = BuildIndex([s \in 1..n |-> emb[urls[s]]])
        /\ faiss_to_product = [s \in 1..n |-> CatalogIds[s]]
        /\ product_metadata =
               [id \in {CatalogIds[s] : s \in 1..n} |->
                   Metadata([id |-> id,
                             imagenUrl |-> urls[CHOOSE s \in 1..n : CatalogIds[s] = id]])]
        /\ cache = [u \in {urls[s] : s \in 1..n} |-> "jpg"]
        /\ cache_dir = TRUE
        /\ pc = "idle"
        /\ ret = NoRet
        /\ sync_tasks = [t \in Tasks |-> NoTask]
        /\ current = 0

NextSearch == Search \/ Return

SpecSearch == InitSearch /\ [][NextSearch]_vars

----------------------------------------------------------------------------
(* Properties *)

\* get_indexed_count(): len(self.product_metadata)
GetIndexedCount == Cardinality(DOMAIN product_metadata)

\* what a search reads of the triple: per slot, the vector, the identifier
\* and the metadata it would copy into a result
ReaderView ==
    [s \in DOMAIN faiss_to_product |->
        [vector |-> index.xb[s],
         product_id |-> faiss_to_product[s],
         metadata |-> product_metadata[faiss_to_product[s]]]]

SyncDone == pc = "done" /\ ret.op = "sync"
SearchDone == pc = "done" /\ ret.op = "search"
\* the step is a whole run of sync_products
SyncStep == pc = "idle" /\ ret'.op = "sync"

\* C1: after every successful sync the index, the metadata table (the
\* figure get_indexed_count reports) and the slot mapping have one common
\* size N, and every slot below N maps to an identifier with metadata.
C1_SizesAgree ==
    (SyncDone /\ ret.status = "ok") =>
        /\ GetIndexedCount = Len(index.xb)
        /\ Len(faiss_to_product) = Len(index.xb)
        /\ \A s \in DOMAIN faiss_to_product :
               faiss_to_product[s] \in DOMAIN product_metadata

C3_EmptyPassChangesNothing ==
    [][(SyncStep /\ ret'.embedded = 0) =>
          /\ index' = index
          /\ product_metadata' = product_metadata
          /\ faiss_to_product' = faiss_to_product]_vars

\* C3 witness: a pass over a non-empty catalog that embedded nothing has run
\* on an engine that had an index.
C3_Witness ==
    SyncDone /\ ret.entries > 0 /\ ret.embedded = 0 /\ index # NoIndex

\* C4: a search with top_k >= 1 on a ready engine returns at most top_k
\* results, each with a score of at least min_similarity.
C4_AtMostTopKAboveThreshold ==
    (SearchDone /\ ret.status = "ok") =>
        /\ Len(ret.results) <= ret.top_k
        /\ \A a \in DOMAIN ret.results :
               ret.results[a].similarity_score >= ret.min_similarity

\* C4 witness: a search returned exactly top_k results from an index that
\* holds more vectors than that, one of them below the threshold.
C4_Witness ==
    /\ SearchDone /\ ret.status = "ok"
    /\ Len(ret.results) = ret.top_k
    /\ Len(faiss_to_product) > ret.top_k
    /\ ret.min_similarity = 1
    /\ \E s \in DOMAIN index.xb, t \in DOMAIN index.xb : index.xb[s] # index.xb[t]

\* C5: results come in non-increasing score, and of two results with the
\* same score the one in the lower slot comes first.
C5_OrderedTiesBySlot ==
    (SearchDone /\ ret.status = "ok") =>
        \A a, b \in DOMAIN ret.results :
            a < b =>
                \/ ret.results[a].similarity_score > ret.results[b].similarity_score
                \/ /\ ret.results[a].similarity_score = ret.results[b].similarity_score
                   /\ ret.results[a].slot < ret.results[b].slot

\* C6: a search on an engine that never built an index fails as not ready,
\* with no result, before any image is fetched or any model load started.
C6_NotReadyFirst ==
    (SearchDone /\ index = NoIndex) =>
        /\ ret.status = "error"
        /\ ret.error = "not_ready"
        /\ ret.results = <<>>
        /\ ~ret.fetch
        /\ ~ret.net
        /\ ret.loads = 0

\* C6 witness: the search was refused after a sync pass that fetched an
\* image and indexed nothing.
C6_Witness ==
    SearchDone /\ ret.error = "not_ready" /\ DOMAIN cache # {}

\* C7: sync returns a report <<indexed, skipped>>: indexed is the number of
\* entries embedded, skipped the number of all the others.
C7_SyncReport ==
    (SyncDone /\ ret.status = "ok") =>
        ret.value = <<ret.embedded, ret.entries - ret.embedded>>

\* C8: an operation during which a model load raised fails with the
\* model-load error.
C8_LoadFailureSurfaces ==
    (pc = "done" /\ ret.loadFailed) =>
        (ret.status = "error" /\ ret.error = "model_load")

\* C9: a pass that ends in a hard failure (the index build raised, or a
\* model load raised) on an engine that had an index leaves the index, the
\* metadata table and the slot mapping as they were, so that a search reads
\* what it read before.
C9_FailedPassChangesNothing ==
    [][(SyncStep /\ index # NoIndex /\ (ret'.status = "error" \/ ret'.loadFailed)) =>
          /\ index' = index
          /\ product_metadata' = product_metadata
          /\ faiss_to_product' = faiss_to_product
          /\ ReaderView' = ReaderView]_vars

\* C10: model loading is started at most once: an operation starts at most
\* one load, and none once a load has been attempted.
C10_LoadStartedOnce ==
    [][(pc = "idle" /\ pc' = "done") =>
          ret'.loads <= (IF loadAttempted THEN 0 ELSE 1)]_vars

\* C11: at most one sync pass is in progress at any time: a pass that has
\* begun runs every entry and its index build before another pass begins, so
\* the per-entry steps of two passes never interleave; a request made
\* meanwhile waits in the queue.
C11_OnePassAtATime ==
    Cardinality({t \in Tasks : sync_tasks[t].st = "running"}) <= 1

\* C11 witness: a pass has processed an entry while another sync request is
\* queued.
C11_Witness ==
    \E t, u \in Tasks :
        /\ sync_tasks[t].st = "running" /\ sync_tasks[t].i >= 1
        /\ sync_tasks[u].st = "queued"

\* C12: once a fetch of a reference has succeeded (its decodable bytes are
\* in the cache), and until the cache is cleared, the file stays as it is
\* and every fetch of that reference returns the image decoded from it
\* without going to the network, whatever the network would answer.
C12_CacheServes ==
    [][\A url \in DOMAIN cache :
          (Decode(cache[url]) # None /\ ret'.op # "clear" /\ cache_dir') =>
             /\ url \in DOMAIN cache'
             /\ cache'[url] = cache[url]
             /\ \A net \in NetAnswers :
                    LET dl == DownloadImage(url, cache_dir, cache, net)
                    IN  ~dl.net /\ dl.image = Decode(cache[url]) /\ dl.cache = cache
             /\ (pc = "idle" /\ ret'.op = "search" /\ ret'.fetch /\ ret'.image_url = url) =>
                    (~ret'.net /\ ret'.image = Decode(cache[url]))]_vars

\* C12 witness: a search fetched its query image from the cache.
C12_Witness ==
    SearchDone /\ ret.fetch /\ ~ret.net /\ ret.image # None
        /\ ret.image_url \in DOMAIN cache

\* C13: clear_cache raises nothing and, from every state of the cache
\* (files, no files, no directory), ends with the directory there and empty.
C13_ClearLeavesEmptyDir ==
    (pc = "done" /\ ret.op = "clear") =>
        (ret.status = "ok" /\ cache_dir /\ cache = EmptyMap)

\* the entries of a pass that were embedded, in catalog order
EmbeddedEntries(log) == SelectSeq(log, LAMBDA e : e.features # NoFeatures)

\* C14: after a sync that built an index, the slot mapping is the sequence,
\* in catalog order, of the identifiers of the entries that had an image
\* reference and were fetched and embedded, and slot i holds the vector of
\* the i-th of them; skipped entries leave the others in place and in order.
C14_SlotsFollowCatalog ==
    (SyncDone /\ ret.status = "ok" /\ ret.embedded > 0) =>
        LET ok == EmbeddedEntries(ret.log)
        IN  /\ faiss_to_product = [s \in DOMAIN ok |-> ok[s].id]
            /\ index.xb = [s \in DOMAIN ok |-> ok[s].features]

\* C14 witness: a pass skipped its first entry and indexed a later one.
C14_Witness ==
    /\ SyncDone /\ ret.status = "ok"
    /\ Len(ret.log) > Len(faiss_to_product)
    /\ Len(faiss_to_product) >= 1
    /\ ret.log[1].features = NoFeatures

\* C15: the ranks of the results of one search are 1, 2, ..., n in result
\* order: a candidate below the threshold leaves no gap.
C15_RanksCountResults ==
    (SearchDone /\ ret.status = "ok") =>
        \A a \in DOMAIN ret.results : ret.results[a].rank = a

\* C15 witness: a search returned a result from a candidate list that also
\* held a candidate below the threshold, which the loop went through.
C15_Witness ==
    /\ SearchDone /\ ret.status = "ok"
    /\ ret.top_k = 2 /\ ret.min_similarity = 1
    /\ Len(ret.results) = 1
    /\ Len(faiss_to_product) = 2
    /\ \E s \in Slots(index) : Score(index, ret.query, s) < ret.min_similarity

\* the slots whose score with the query of the last search clears its threshold
Qualifying ==
    {s \in Slots(index) : Score(index, ret.query, s) >= ret.min_similarity}

\* the slots the last search returned
Returned == {ret.results[a].slot : a \in DOMAIN ret.results}

\* C16: a search whose query was embedded in the index's dimension succeeds
\* and returns min(top_k, Q) results, Q the number of indexed vectors
\* scoring at least min_similarity: distinct slots, each with its score, no
\* slot left out scoring higher than one returned; none when Q = 0.
C16_CompleteAboveThreshold ==
    (SearchDone /\ ret.query # NoFeatures /\ Len(ret.query) = index.d) =>
        /\ ret.status = "ok"
        /\ Len(ret.results) = Min(ret.top_k, Cardinality(Qualifying))
        /\ Cardinality(Returned) = Len(ret.results)
        /\ Returned \subseteq Qualifying
        /\ \A a \in DOMAIN ret.results :
               ret.results[a].similarity_score
                   = Score(index, ret.query, ret.results[a].slot)
        /\ \A r \in Returned, s \in Qualifying \ Returned :
               Score(index, ret.query, r) >= Score(index, ret.query, s)

\* C16 witness: a search for one result against an index of more than two
\* vectors, so that fewer candidates were requested than are indexed, with
\* qualifying vectors among them.
C16_Witness ==
    /\ SearchDone /\ ret.status = "ok"
    /\ Len(faiss_to_product) > 2 * ret.top_k
    /\ Cardinality(Qualifying) > ret.top_k
    /\ Cardinality(Qualifying) < Len(faiss_to_product)
    /\ Len(ret.results) = ret.top_k

====
